---------------------------- MODULE Spec2Model ----------------------------
(***************************************************************************)
(* analyze-block-production.py: connect to the archive database, run one   *)
(* aggregate query over the blocks table, print the result and plot it.    *)
(*                                                                         *)
(* Time is scaled: a day has DaySecs seconds instead of 86400, so that the *)
(* 30-day window in micro-seconds stays inside TLC's integers.  All other  *)
(* units keep their ratios (1000 ms per second, 1000 us per ms).  The      *)
(* session time zone is a fixed offset from UTC (no daylight saving).      *)
(***************************************************************************)
EXTENDS Integers, Sequences, FiniteSets, Bags

VARIABLES
    store,      \* the blocks table: a bag of rows [timestamp, creator_id]
    pc,         \* position of the script
    conn,       \* "none" | "open" | "closed"
    opened,     \* number of connections opened so far
    tz,         \* session time zone, seconds east of UTC
    now,        \* now() of the query, micro-seconds since the epoch
    df,         \* the DataFrame: sequence of result records
    stdout,     \* lines written to standard output
    chart,      \* the matplotlib figure
    stderr,     \* the traceback of the uncaught exception
    exitCode,   \* -1 while running, then the process exit status
    log         \* history: the statements attempted, <<step, succeeded>>

vars == <<store, pc, conn, opened, tz, now, df, stdout, chart, stderr, exitCode, log>>

---------------------------------------------------------------------------
(* Bounds *)

MaxRows == 3
DaySecs == 3

(* Units and the constants of the query *)

MsPerSec == 1000
UsecPerMs == 1000
WindowDays == 30

UsecPerSec == MsPerSec * UsecPerMs
DayMs == DaySecs * MsPerSec
WindowMs == WindowDays * DayMs
WindowUsec == WindowMs * UsecPerMs

NULL == "NULL"
Creators == {"A", "B", NULL}

\* millisecond timestamps of blocks: around the two lower bounds, around a
\* day boundary, and one later than every execution time
Timestamps ==
    { DayMs + 500, DayMs + 501, 2 * DayMs - 1, 2 * DayMs, 2 * DayMs + 999,
      WindowMs + 3 * DayMs + 1 }

\* execution times, in micro-seconds: one with a sub-millisecond part whose
\* lower bound falls inside a day, one whose lower bound is a day boundary
AsOfs == { (WindowMs + DayMs + 500) * UsecPerMs + 250, (WindowMs + 2 * DayMs) * UsecPerMs }

TzOffsets == {-1, 0, 1}

Rows == [timestamp : Timestamps, creator_id : Creators]

None == <<>>
NoChart == [drawn |-> FALSE]

---------------------------------------------------------------------------
(* The SQL query *)

\* variant: the quotient rounded to the nearest integer
SqlDivRounded(a, b) == (a + b \div 2) \div b

\* bigint / integer: integer division truncating toward zero
SqlDiv(a, b) == IF a >= 0 THEN a \div b ELSE -((-a) \div b)

\* to_timestamp(seconds): a timestamptz, micro-seconds since the epoch
ToTimestamp(secs) == secs * UsecPerSec

\* DATE(timestamptz): the day number of the instant in the session time zone
Date(tstz, zone) == (tstz + zone * UsecPerSec) \div (DaySecs * UsecPerSec)

\* DATE(to_timestamp(timestamp::bigint / 1000))
GroupDate(r, zone) == Date(ToTimestamp(SqlDiv(r.timestamp, MsPerSec)), zone)

\* now() - interval '30 days'
LowerBound(asOf) == asOf - WindowUsec

\* variant: the lower bound included
QualifiesInclusive(r, asOf) == r.timestamp * UsecPerMs >= LowerBound(asOf)

\* variant: the epoch seconds not multiplied by 1000
QualifiesSecondsUnit(r, asOf) == r.timestamp > LowerBound(asOf) \div UsecPerSec

\* WHERE timestamp > extract(epoch from now() - interval '30 days') * 1000
\* (both sides compared exactly, here in micro-seconds)
Qualifies(r, asOf) == r.timestamp * UsecPerMs > LowerBound(asOf)

Where(b, asOf) ==
    [r \in {x \in BagToSet(b) : Qualifies(x, asOf)} |-> b[r]]

RECURSIVE ScanCount(_, _)
ScanCount(S, b) ==
    IF S = {} THEN 0
    ELSE LET r == CHOOSE x \in S : TRUE IN b[r] + ScanCount(S \ {r}, b)

\* variant: COUNT(DISTINCT timestamp)
CountStarDistinctTimestamps(g) == Cardinality({r.timestamp : r \in BagToSet(g)})

\* COUNT( * ) over the rows of a group
CountStar(g) == ScanCount(BagToSet(g), g)

\* COUNT(DISTINCT creator_id): NULLs are not counted
CountDistinct(g) == Cardinality({r.creator_id : r \in BagToSet(g)} \ {NULL})

\* GROUP BY date, with the two aggregates
GroupBy(b, zone) ==
    { LET g == [r \in {x \in BagToSet(b) : GroupDate(x, zone) = d} |-> b[r]]
      IN  [date |-> d, blocks_per_day |-> CountStar(g), unique_producers |-> CountDistinct(g)]
      : d \in {GroupDate(r, zone) : r \in BagToSet(b)} }

\* variant: ORDER BY date DESC
RECURSIVE OrderByDesc(_)
OrderByDesc(S) ==
    IF S = {} THEN <<>>
    ELSE LET m == CHOOSE x \in S : \A y \in S : x.date >= y.date
         IN  <<m>> \o OrderByDesc(S \ {m})

\* ORDER BY date
RECURSIVE OrderBy(_)
OrderBy(S) ==
    IF S = {} THEN <<>>
    ELSE LET m == CHOOSE x \in S : \A y \in S : x.date <= y.date
         IN  <<m>> \o OrderBy(S \ {m})

\* variant: one record per date of the table, counting the qualifying rows
QueryDensified(b, asOf, zone) ==
    OrderBy({ LET w == Where(b, asOf)
                  g == [r \in {x \in BagToSet(w) : GroupDate(x, zone) = d} |-> w[r]]
              IN  [date |-> d, blocks_per_day |-> CountStar(g), unique_producers |-> CountDistinct(g)]
              : d \in {GroupDate(r, zone) : r \in BagToSet(b)} })

\* the whole statement: WHERE, GROUP BY, ORDER BY
Query(b, asOf, zone) == OrderBy(GroupBy(Where(b, asOf), zone))

---------------------------------------------------------------------------
(* Presentation *)

\* print(df): the column header, then one line per record
ToTable(d) ==
    <<<<"date", "blocks_per_day", "unique_producers">>>>
      \o [i \in 1..Len(d) |-> <<d[i].date, d[i].blocks_per_day, d[i].unique_producers>>]

\* df.plot(x='date', y='blocks_per_day', kind='line')
LineChart(d) ==
    [drawn |-> TRUE, kind |-> "line",
     x |-> [i \in 1..Len(d) |-> d[i].date],
     y |-> [i \in 1..Len(d) |-> d[i].blocks_per_day],
     title |-> "", shown |-> FALSE]

---------------------------------------------------------------------------
Init ==
    /\ store = EmptyBag
    /\ pc = "start"
    /\ conn = "none"
    /\ opened = 0
    /\ tz = 0
    /\ now = 0
    /\ df = None
    /\ stdout = <<>>
    /\ chart = NoChart
    /\ stderr = <<>>
    /\ exitCode = -1
    /\ log = <<>>

\* the archive node adds a block row to the table the script reads (FROM blocks)
ArchiveInsert ==
    /\ pc = "start"
    /\ BagCardinality(store) < MaxRows
    /\ \E r \in Rows : store' = store (+) SetToBag({r})
    /\ UNCHANGED <<pc, conn, opened, tz, now, df, stdout, chart, stderr, exitCode, log>>

\* an uncaught exception: traceback on stderr, exit status 1
Uncaught(step) ==
    /\ pc' = "failed"
    /\ stderr' = <<"Traceback", step>>
    /\ exitCode' = 1
    /\ log' = Append(log, <<step, FALSE>>)

\* conn = psycopg2.connect(...)
Connect ==
    /\ pc = "start"
    /\ pc' = "connected"
    /\ conn' = "open"
    /\ opened' = opened + 1
    /\ \E z \in TzOffsets : tz' = z
    /\ log' = Append(log, <<"connect", TRUE>>)
    /\ UNCHANGED <<store, now, df, stdout, chart, stderr, exitCode>>

ConnectFail ==
    /\ pc = "start"
    /\ Uncaught("connect")
    /\ UNCHANGED <<store, conn, opened, tz, now, df, stdout, chart>>

\* df = pd.read_sql_query(query, conn)
ReadSqlQuery ==
    /\ pc = "connected"
    /\ \E t \in AsOfs :
         /\ now' = t
         /\ df' = Query(store, t, tz)
    /\ pc' = "queried"
    /\ log' = Append(log, <<"query", TRUE>>)
    /\ UNCHANGED <<store, conn, opened, tz, stdout, chart, stderr, exitCode>>

\* variant: the query's exception swallowed, the run going on with an empty frame
ReadSqlQuerySwallowed ==
    /\ pc = "connected"
    /\ pc' = "queried"
    /\ df' = <<>>
    /\ log' = Append(log, <<"query", FALSE>>)
    /\ UNCHANGED <<store, conn, opened, tz, now, stdout, chart, stderr, exitCode>>

ReadSqlQueryFail ==
    /\ pc = "connected"
    /\ Uncaught("query")
    /\ UNCHANGED <<store, conn, opened, tz, now, df, stdout, chart>>

\* print(df)
PrintDf ==
    /\ pc = "queried"
    /\ stdout' = stdout \o ToTable(df)
    /\ pc' = "printed"
    /\ log' = Append(log, <<"print", TRUE>>)
    /\ UNCHANGED <<store, conn, opened, tz, now, df, chart, stderr, exitCode>>

\* the write to standard output fails before the last line is out
PrintFail ==
    /\ pc = "queried"
    /\ \E k \in 0..Len(df) : stdout' = stdout \o SubSeq(ToTable(df), 1, k)
    /\ Uncaught("print")
    /\ UNCHANGED <<store, conn, opened, tz, now, df, chart>>

\* df.plot(x='date', y='blocks_per_day', kind='line')
Plot ==
    /\ pc = "printed"
    /\ chart' = LineChart(df)
    /\ pc' = "plotted"
    /\ log' = Append(log, <<"plot", TRUE>>)
    /\ UNCHANGED <<store, conn, opened, tz, now, df, stdout, stderr, exitCode>>

\* variant: the plot retried after a failure
PlotFailRetry ==
    /\ pc = "printed"
    /\ Len(log) < 8
    /\ log' = Append(log, <<"plot", FALSE>>)
    /\ UNCHANGED <<store, pc, conn, opened, tz, now, df, stdout, chart, stderr, exitCode>>

PlotFail ==
    /\ pc = "printed"
    /\ Uncaught("plot")
    /\ UNCHANGED <<store, conn, opened, tz, now, df, stdout, chart>>

\* plt.title('Daily Block Production')
Title ==
    /\ pc = "plotted"
    /\ chart' = [chart EXCEPT !.title = "Daily Block Production"]
    /\ pc' = "titled"
    /\ log' = Append(log, <<"title", TRUE>>)
    /\ UNCHANGED <<store, conn, opened, tz, now, df, stdout, stderr, exitCode>>

\* plt.show(), after which the script ends with status 0
Show ==
    /\ pc = "titled"
    /\ chart' = [chart EXCEPT !.shown = TRUE]
    /\ pc' = "done"
    /\ exitCode' = 0
    /\ log' = Append(log, <<"show", TRUE>>)
    /\ UNCHANGED <<store, conn, opened, tz, now, df, stdout, stderr>>

\* no display surface: plt.show() raises
ShowFail ==
    /\ pc = "titled"
    /\ Uncaught("show")
    /\ UNCHANGED <<store, conn, opened, tz, now, df, stdout, chart>>

Next ==
    \/ ArchiveInsert
    \/ Connect
    \/ ConnectFail
    \/ ReadSqlQuery
    \/ ReadSqlQueryFail
    \/ PrintDf
    \/ PrintFail
    \/ Plot
    \/ PlotFail
    \/ Title
    \/ Show
    \/ ShowFail

Spec == Init /\ [][Next]_vars

---------------------------------------------------------------------------
(* Vocabulary of the properties, stated independently of the query's operators *)

\* the query has returned: df holds its result
Fetched == \E i \in DOMAIN log : log[i] = <<"query", TRUE>>

LastLog == IF log = <<>> THEN <<"", TRUE>> ELSE log[Len(log)]

\* the row's timestamp is strictly later than the execution time minus 30 days
InWindow(r) == r.timestamp * UsecPerMs > now - WindowDays * DaySecs * UsecPerSec

\* the row's timestamp is later than the execution time
InFuture(r) == r.timestamp * UsecPerMs > now

\* calendar day of a whole number of seconds since the epoch, session time zone
DayOfSecs(s) == (s + tz) \div DaySecs

\* calendar day of the exact millisecond instant, session time zone
DayOfMs(ms) == (ms + tz * MsPerSec) \div DayMs

\* calendar day of a micro-second instant, session time zone
DayOfUsec(us) == (us + tz * UsecPerSec) \div (DaySecs * UsecPerSec)

\* the rows of the store selected by P, with their multiplicities
RowsWhere(P(_)) == [r \in {x \in BagToSet(store) : P(x)} |-> store[r]]

Producers(b) == {r.creator_id : r \in BagToSet(b)} \ {NULL}

---------------------------------------------------------------------------
\* C1: the result has exactly one record per calendar date with at least one
\* qualifying row (timestamp strictly later than asOf - 30 days); its
\* blocks_per_day is the number of qualifying rows of that date and its
\* unique_producers the number of distinct producer identifiers among them.
C1_DailyCounts ==
    Fetched =>
      LET QDate(r) == DayOfSecs(r.timestamp \div MsPerSec)
          QRows(d) == RowsWhere(LAMBDA r : InWindow(r) /\ QDate(r) = d)
          QDates   == {QDate(r) : r \in BagToSet(RowsWhere(InWindow))}
      IN  /\ \A d \in QDates : Cardinality({i \in DOMAIN df : df[i].date = d}) = 1
          /\ \A i \in DOMAIN df :
               /\ df[i].date \in QDates
               /\ df[i].blocks_per_day = BagCardinality(QRows(df[i].date))
               /\ df[i].unique_producers = Cardinality(Producers(QRows(df[i].date)))

\* rows {A, A, B} on one day give (D, 3, 2)
C1_Witness ==
    /\ Fetched
    /\ Len(df) = 1
    /\ df[1].blocks_per_day = 3
    /\ df[1].unique_producers = 2
    /\ BagCardinality(RowsWhere(InWindow)) = 3

\* C2 (as stated): every record's date lies between the date of the execution
\* time minus 30 days and the date of the execution time, and only the rows
\* of that window are counted.
C2_TwoSidedWindow ==
    Fetched =>
      \A i \in DOMAIN df :
        /\ DayOfUsec(now - WindowUsec) <= df[i].date
        /\ df[i].date <= DayOfUsec(now)
        /\ df[i].blocks_per_day =
             BagCardinality(RowsWhere(LAMBDA r :
                 InWindow(r) /\ ~InFuture(r) /\ DayOfMs(r.timestamp) = df[i].date))

\* C2 (amended): every record's date is on or after the date of the execution
\* time minus 30 days, and rows at or before that lower bound contribute no
\* record and no count; rows later than the execution time are not excluded.
C2_LowerBoundOnly ==
    Fetched =>
      /\ \A i \in DOMAIN df :
           /\ DayOfUsec(now - WindowUsec) <= df[i].date
           /\ \E r \in BagToSet(RowsWhere(InWindow)) : DayOfMs(r.timestamp) = df[i].date
           /\ df[i].blocks_per_day <=
                BagCardinality(RowsWhere(LAMBDA r :
                    InWindow(r) /\ DayOfMs(r.timestamp) = df[i].date))
      /\ \A r \in BagToSet(RowsWhere(InFuture)) :
           \E i \in DOMAIN df : df[i].date = DayOfMs(r.timestamp)

\* a row before the lower bound is left out while a row later than the
\* execution time is reported
C2_Witness ==
    /\ Fetched
    /\ \E r \in BagToSet(store) : ~InWindow(r)
    /\ \E r \in BagToSet(store) : InFuture(r)
    /\ \E i \in DOMAIN df : df[i].date > DayOfUsec(now)

\* C3 (as stated): a run never terminates with the connection still open, on
\* any exit path, and opens exactly one connection.
C3_ConnectionReleased ==
    /\ opened <= 1
    /\ Fetched => opened = 1
    /\ pc \in {"done", "failed"} => conn # "open"

\* C4: the result is sorted strictly ascending by date, without duplicates.
C4_StrictlyAscending ==
    Fetched => \A i, j \in DOMAIN df : i < j => df[i].date < df[j].date

C4_Witness ==
    /\ Fetched
    /\ Len(df) = 3

\* C5: a failed connect or a failed query ends the run with a non-zero exit
\* status and the cause on stderr, nothing printed and no chart drawn.
C5_FatalBeforeOutput ==
    LastLog \in {<<"connect", FALSE>>, <<"query", FALSE>>} =>
      /\ pc = "failed"
      /\ exitCode = 1
      /\ stderr = <<"Traceback", LastLog[1]>>
      /\ stdout = <<>>
      /\ chart = NoChart
      /\ df = None

C5_Witness ==
    /\ LastLog = <<"query", FALSE>>
    /\ store # EmptyBag
    /\ conn = "open"

\* C6 (as stated): when the plot step fails the full table has been printed,
\* the failure is reported, and the run does not end in the fatal outcome
\* (exit status 1) of a connection or query failure.
C6_PlotFailureNotFatal ==
    LastLog \in {<<"plot", FALSE>>, <<"show", FALSE>>} =>
      /\ Len(stdout) = Len(df) + 1
      /\ stdout[1] = <<"date", "blocks_per_day", "unique_producers">>
      /\ \A i \in DOMAIN df :
           stdout[i + 1] = <<df[i].date, df[i].blocks_per_day, df[i].unique_producers>>
      /\ stderr # <<>>
      /\ exitCode # 1

\* C7: in every record unique_producers <= blocks_per_day, also when producer
\* identifiers repeat or are missing.
C7_ProducersAtMostBlocks ==
    Fetched => \A i \in DOMAIN df : df[i].unique_producers <= df[i].blocks_per_day

\* a day whose rows have a repeated and a missing producer
C7_Witness ==
    /\ Fetched
    /\ \E i \in DOMAIN df : df[i].blocks_per_day = 3 /\ df[i].unique_producers = 1
    /\ \E r \in BagToSet(RowsWhere(InWindow)) : r.creator_id = NULL

\* C8: every record has blocks_per_day >= 1, a date without qualifying rows
\* has no record, and the result is empty when no row is inside the window.
C8_NoZeroRecords ==
    Fetched =>
      /\ \A i \in DOMAIN df :
           /\ df[i].blocks_per_day >= 1
           /\ \E r \in BagToSet(store) : InWindow(r) /\ DayOfMs(r.timestamp) = df[i].date
      /\ (\A r \in BagToSet(store) : ~InWindow(r)) => df = <<>>

\* the store has rows, none of them inside the window
C8_Witness ==
    /\ Fetched
    /\ store # EmptyBag
    /\ \A r \in BagToSet(store) : ~InWindow(r)
    /\ df = <<>>

\* C9: a row is grouped under the calendar date of its timestamp with the
\* sub-second part discarded: rows with the same quotient by 1000 share a
\* record, and a row in the last 999 ms of a day is not counted on the next day.
C9_TruncatedToSecond ==
    Fetched =>
      /\ \A r \in BagToSet(RowsWhere(InWindow)) :
           \E i \in DOMAIN df :
             /\ df[i].date = DayOfMs(r.timestamp)
             /\ df[i].date = DayOfMs(r.timestamp - (r.timestamp % MsPerSec))
      /\ \A i \in DOMAIN df :
           \E r \in BagToSet(RowsWhere(InWindow)) : DayOfMs(r.timestamp) = df[i].date

\* a qualifying row in the last millisecond of its day, and no record for the next day
C9_Witness ==
    /\ Fetched
    /\ \E r \in BagToSet(RowsWhere(InWindow)) :
         /\ r.timestamp % MsPerSec = 999
         /\ DayOfMs(r.timestamp + 1) = DayOfMs(r.timestamp) + 1
         /\ \A i \in DOMAIN df : df[i].date # DayOfMs(r.timestamp) + 1

\* C10: the statements run once each in the order connect, query, print,
\* plot (plot, title, show), each only after all earlier ones succeeded and
\* none after a failure; the table and the chart show the records of the
\* result in the order the query returned them.
C10_SinglePass ==
    LET Order == <<"connect", "query", "print", "plot", "title", "show">>
    IN  /\ Len(log) <= Len(Order)
        /\ \A i \in DOMAIN log :
             /\ log[i][1] = Order[i]
             /\ i < Len(log) => log[i][2]
        /\ (\E i \in DOMAIN log : log[i] = <<"print", TRUE>>) =>
             /\ Len(stdout) = Len(df) + 1
             /\ stdout[1] = <<"date", "blocks_per_day", "unique_producers">>
             /\ \A i \in DOMAIN df :
                  stdout[i + 1] = <<df[i].date, df[i].blocks_per_day, df[i].unique_producers>>
        /\ chart.drawn =>
             /\ Len(chart.x) = Len(df) /\ Len(chart.y) = Len(df)
             /\ \A i \in DOMAIN df :
                  chart.x[i] = df[i].date /\ chart.y[i] = df[i].blocks_per_day

C10_Witness ==
    /\ pc = "done"
    /\ Len(log) = 6
    /\ Len(df) >= 2
    /\ chart.shown

===========================================================================
